---- MODULE Spec2Model ----
(***************************************************************************)
(* The greeting service (server handlers SayHello and SayHelloMultiple,    *)
(* server main) and the greeting client (client main) of                   *)
(* grpc-proto-demo-golang, as one state machine.  The RPC substrate        *)
(* (listener, connection, contexts, stream transport) is the environment:  *)
(* every result the code tests (err != nil, err == io.EOF) is a            *)
(* nondeterministic outcome of the call that produced it.                  *)
(***************************************************************************)
EXTENDS Integers, Sequences, FiniteSets, TLC

\* ------------------------------------------------------------------ bounds

\* Calls made by callers other than the modelled client process.
MaxOther == 2

\* Seconds the blocked unary call is watched for before the count saturates.
MaxWait == 6

\* Calls in a history of calls served one after another.
MaxHistory == 3

\* ------------------------------------------------------- program constants

\* for i := 1; i <= 5; i++
NumGreetings == 5

\* context.WithTimeout(context.Background(), 5*time.Second)
UnaryTimeoutSecs == 5

\* time.Sleep(1 * time.Second)
SleepSecs == 1

\* HelloResponse.Count of the unary reply
UnaryCount == 1

\* log.Fatalf ends the process with os.Exit(1); a return from main with 0
FatalStatus == 1
OkStatus == 0

\* Names the other callers send: the empty string and the client's streaming name.
Names == {"", "Bob"}

\* Names the handlers' formatting is tried on: those, the client's unary name,
\* and names that themselves look like format verbs.
ProbeNames == Names \cup {"Alice", "%d", "%s! "}

\* HelloRequest{Name: "Alice"} and HelloRequest{Name: "Bob"}
ClientUnaryName == "Alice"
ClientStreamName == "Bob"

\* Errors stream.Send can return to the handler.
SendErrors == {"Unavailable", "Canceled"}

\* ------------------------------------------------------------- formatting

Digits == <<"0", "1", "2", "3", "4", "5", "6", "7", "8", "9">>

\* %d of a non-negative integer: decimal digits, most significant first.
RECURSIVE FormatNat(_)
FormatNat(n) ==
    IF n < 10 THEN Digits[n + 1]
    ELSE FormatNat(n \div 10) \o Digits[(n % 10) + 1]

\* %d of an integer.
FormatInt(n) == IF n < 0 THEN "-" \o FormatNat(0 - n) ELSE FormatNat(n)

\* int32(i): two's complement, 32 bits wide.  A value in range is kept; one
\* up to 2^32 beyond the range wraps around once.
MaxInt32 == 2147483647
MinInt32 == (0 - MaxInt32) - 1
Int32(i) ==
    IF i > MaxInt32 THEN ((i - MaxInt32) - MaxInt32) - 2
    ELSE IF i < MinInt32 THEN ((i + MaxInt32) + MaxInt32) + 2
    ELSE i

\* An argument of Sprintf, tagged with its Go type.
StrArg(s) == [kind |-> "string", val |-> s]
IntArg(n) == [kind |-> "int", val |-> n]

\* fmt.Sprintf over a format cut into literal pieces and verbs: every verb
\* consumes the next argument, a literal piece is copied.
RECURSIVE Sprintf(_, _)
Sprintf(format, args) ==
    IF format = <<>> THEN ""
    ELSE IF Head(format) \in {"%s", "%d", "%v"}
         THEN (IF args = <<>> THEN "%!" \o Head(format) \o "(MISSING)"
               ELSE IF Head(args).kind = "int"
                    THEN (IF Head(format) = "%s"
                          THEN "%!s(int=" \o FormatInt(Head(args).val) \o ")"
                          ELSE FormatInt(Head(args).val))
                    ELSE (IF Head(format) = "%d"
                          THEN "%!d(string=" \o Head(args).val \o ")"
                          ELSE Head(args).val))
              \o Sprintf(Tail(format),
                         IF args = <<>> THEN <<>> ELSE Tail(args))
         ELSE Head(format) \o Sprintf(Tail(format), args)

\* pb.HelloRequest / pb.HelloResponse
HelloRequest(n) == [name |-> n]
HelloResponse(m, c) == [message |-> m, count |-> c]

\* ------------------------------------------------------------ the handlers

UnaryFormat == <<"Hello, ", "%s", "! Welcome to gRPC with Go!">>

StreamFormat == <<"Hello #", "%d", ", ", "%s", "! Streaming response ", "%d", " of 5">>

\* SayHello with the Count field left at its zero value.
UnaryResponseNoCount(req) ==
    HelloResponse(Sprintf(UnaryFormat, <<StrArg(req.name)>>), 0)

\* The response SayHello builds.
UnaryResponse(req) ==
    HelloResponse(Sprintf(UnaryFormat, <<StrArg(req.name)>>), UnaryCount)

\* The response SayHelloMultiple builds in iteration i.
StreamResponse(req, i) ==
    HelloResponse(Sprintf(StreamFormat, <<IntArg(i), StrArg(req.name), IntArg(i)>>),
                  Int32(i))

\* The loop condition with < for <=.
LoopCondShort(i) == i < NumGreetings

\* The loop condition of SayHelloMultiple.
LoopCond(i) == i <= NumGreetings

VARIABLES
    srvPc,        \* server main: "init", "serving", "exited"
    srvExit,      \* <<>> while the server runs, <<status, cause>> once it ended
    calls,        \* the calls the server accepted, in order of acceptance
    cliPc,        \* client main's position
    cliExit,      \* <<>> while the client runs, <<status>> once it ended
    cliFatal,     \* <<>> or <<[step, err]>>: the log.Fatalf that ended the client
    defers,       \* the client's deferred calls, last pushed first
    cleanup,      \* the deferred calls that ran, in order
    conn,         \* "none", "open", "closed"
    reachAtConnect, \* whether the server was serving when NewClient ran
    ctxState,     \* the unary context: "none", "active", "expired", "canceled"
    ctxLeft,      \* seconds to the unary context's deadline
    waited,       \* seconds the client has been blocked in the unary call
    unaryReq,     \* the client's unary request: "none", "pending", "served"
    streamReq,    \* the client's streaming request: "none", "pending", "served"
    cliUnaryId,   \* index in calls of the client's unary call, 0 before
    cliStreamId,  \* index in calls of the client's streaming call, 0 before
    wire,         \* responses sent on the client's stream, not yet received
    cur,          \* <<>> or <<response>>: the item Recv returned last
    received,     \* the responses the client printed, in order
    cliOut,       \* the lines the client printed and logged, without their
                  \* leading glyphs and without the two separator lines
    attempts,     \* how often the client ran each fallible step
    errs          \* the error each fallible step of the client returned last

vars == <<srvPc, srvExit, calls, cliPc, cliExit, cliFatal, defers, cleanup, conn,
          reachAtConnect, ctxState, ctxLeft, waited, unaryReq, streamReq,
          cliUnaryId, cliStreamId, wire, cur, received, cliOut, attempts, errs>>

srvVars == <<srvPc, srvExit, calls>>

cliVars == <<cliPc, cliExit, cliFatal, defers, cleanup, conn, reachAtConnect,
             cur, received, cliOut, attempts, errs>>

ctxVars == <<ctxState, ctxLeft, waited>>

reqVars == <<unaryReq, streamReq, cliUnaryId, cliStreamId, wire>>

Init ==
    /\ srvPc = "init"
    /\ srvExit = <<>>
    /\ calls = <<>>
    /\ cliPc = "start"
    /\ cliExit = <<>>
    /\ cliFatal = <<>>
    /\ defers = <<>>
    /\ cleanup = <<>>
    /\ conn = "none"
    /\ reachAtConnect = FALSE
    /\ ctxState = "none"
    /\ ctxLeft = 0
    /\ waited = 0
    /\ unaryReq = "none"
    /\ streamReq = "none"
    /\ cliUnaryId = 0
    /\ cliStreamId = 0
    /\ wire = <<>>
    /\ cur = <<>>
    /\ received = <<>>
    /\ cliOut = <<>>
    /\ attempts = [connect |-> 0, unary |-> 0, open |-> 0, recv |-> 0]
    /\ errs = [connect |-> "", unary |-> "", open |-> "", recv |-> ""]

\* ----------------------------------------------------------- the contexts

\* SayHello called with context.Background(), SayHelloMultiple with ctx.
UnaryCallCtxBackground == "background"
StreamCallCtxShared == "timeout"

\* The context each call is made with: ctx (WithTimeout) for SayHello,
\* context.Background() for SayHelloMultiple.
UnaryCallCtx == "timeout"
StreamCallCtx == "background"

\* ctx.Done() of the context a call was made with, and its ctx.Err().
CtxDone(which) == which = "timeout" /\ ctxState \in {"expired", "canceled"}
CtxErr == IF ctxState = "expired" THEN "DeadlineExceeded" ELSE "Canceled"

\* ------------------------------------------------------------- the server

\* A call as the server holds it.  sent and tried are the items stream.Send
\* delivered and was asked to deliver; failed is the first failure of
\* stream.Send, <<[at, err]>>; before holds the results of the calls that had
\* already ended when this one was accepted; ctx is the state of the context
\* the handler is called with, "live" or "done".
NewCall(kind, owner, n, before) ==
    [kind |-> kind, owner |-> owner, req |-> HelloRequest(n),
     pc |-> "start", i |-> 0, sent |-> <<>>, tried |-> <<>>, ret |-> "pending",
     resp |-> <<>>, sleeps |-> 0, timer |-> 0, log |-> <<>>, before |-> before,
     failed |-> <<>>, ctx |-> "live"]

CallIds == 1..Len(calls)

Ended(c) == c.ret # "pending"

EndedRets == {calls[k].ret : k \in {j \in CallIds : Ended(calls[j])}}

NumOther == Cardinality({k \in CallIds : calls[k].owner = "other"})

\* SayHello giving up with the context's error when its context is done.
SayHelloCtxAware(c) ==
    IF c.ctx = "done"
    THEN [c EXCEPT !.ret = "Canceled", !.pc = "done"]
    ELSE [c EXCEPT !.log = Append(@, Sprintf(<<"Received request from: ", "%s">>,
                                             <<StrArg(c.req.name)>>)),
                   !.resp = <<UnaryResponse(c.req)>>,
                   !.ret = "nil",
                   !.pc = "done"]

\* SayHello numbering its replies with a counter kept in the server.
SayHelloCounting(c) ==
    [c EXCEPT !.log = Append(@, Sprintf(<<"Received request from: ", "%s">>,
                                        <<StrArg(c.req.name)>>)),
              !.resp = <<HelloResponse(UnaryResponse(c.req).message, Len(calls) + 1)>>,
              !.ret = "nil",
              !.pc = "done"]

\* SayHello: log the name, build the response, return it with a nil error.
SayHello(c) ==
    [c EXCEPT !.log = Append(@, Sprintf(<<"Received request from: ", "%s">>,
                                        <<StrArg(c.req.name)>>)),
              !.resp = <<UnaryResponse(c.req)>>,
              !.ret = "nil",
              !.pc = "done"]

\* SayHelloMultiple up to the loop: log the name, i := 1.
StreamBegin(c) ==
    [c EXCEPT !.log = Append(@, Sprintf(<<"Received streaming request from: ", "%s">>,
                                        <<StrArg(c.req.name)>>)),
              !.i = 1,
              !.pc = "loop"]

\* The items all streaming calls sent so far.
RECURSIVE SentUpTo(_)
SentUpTo(k) == IF k = 0 THEN 0 ELSE Len(calls[k].sent) + SentUpTo(k - 1)

\* The loop variable kept in a package-level counter that every call advances.
IterIndexShared(c) == SentUpTo(Len(calls)) + 1

\* The loop variable i of SayHelloMultiple: a local of the call.
IterIndex(c) == c.i

\* An iteration that drops the error of stream.Send and carries on.
StreamIterateSkipError(c, err) ==
    LET response == StreamResponse(c.req, IterIndex(c))
    IN  [c EXCEPT !.tried = Append(@, response),
                  !.sent = IF err = "nil" THEN Append(@, response) ELSE @,
                  !.sleeps = @ + 1,
                  !.timer = SleepSecs,
                  !.pc = "sleep"]

\* One iteration that sleeps only when another item is to follow.
StreamIterateNoLastSleep(c, err) ==
    LET response == StreamResponse(c.req, IterIndex(c))
    IN  IF err # "nil"
        THEN [c EXCEPT !.tried = Append(@, response),
                       !.ret = err,
                       !.pc = "done"]
        ELSE IF IterIndex(c) = NumGreetings
        THEN [c EXCEPT !.tried = Append(@, response),
                       !.sent = Append(@, response),
                       !.i = @ + 1,
                       !.pc = "loop"]
        ELSE [c EXCEPT !.tried = Append(@, response),
                       !.sent = Append(@, response),
                       !.sleeps = @ + 1,
                       !.timer = SleepSecs,
                       !.pc = "sleep"]

\* One iteration returning nil, not the error, when stream.Send fails.
StreamIterateSwallowError(c, err) ==
    LET response == StreamResponse(c.req, IterIndex(c))
    IN  IF err # "nil"
        THEN [c EXCEPT !.tried = Append(@, response),
                       !.ret = "nil",
                       !.pc = "done"]
        ELSE [c EXCEPT !.tried = Append(@, response),
                       !.sent = Append(@, response),
                       !.log = Append(@, Sprintf(<<"Sent streaming response #", "%d",
                                                   " to ", "%s">>,
                                                 <<IntArg(IterIndex(c)), StrArg(c.req.name)>>)),
                       !.sleeps = @ + 1,
                       !.timer = SleepSecs,
                       !.pc = "sleep"]

\* One iteration whose stream.Send returned err: on an error the handler
\* returns it; otherwise it logs the send and goes to sleep.
StreamIterate(c, err) ==
    LET response == StreamResponse(c.req, IterIndex(c))
    IN  IF err # "nil"
        THEN [c EXCEPT !.tried = Append(@, response),
                       !.ret = err,
                       !.pc = "done"]
        ELSE [c EXCEPT !.tried = Append(@, response),
                       !.sent = Append(@, response),
                       !.log = Append(@, Sprintf(<<"Sent streaming response #", "%d",
                                                   " to ", "%s">>,
                                                 <<IntArg(IterIndex(c)), StrArg(c.req.name)>>)),
                       !.sleeps = @ + 1,
                       !.timer = SleepSecs,
                       !.pc = "sleep"]

\* The end of an iteration: the sleep is over, i++.
StreamAdvance(c) == [c EXCEPT !.i = @ + 1, !.pc = "loop"]

\* The loop condition failed: return nil.
StreamFinish(c) == [c EXCEPT !.ret = "nil", !.pc = "done"]

\* A handler that ends the process on a failed send (log.Fatalf for return err).
SrvExitOnSendError(pc) == "exited"

\* What a failed stream.Send does to the server process: nothing, the error
\* is the call's result and the server keeps serving.
SrvAfterSendError(pc) == pc

\* net.Listen, grpc.NewServer, RegisterGreetingServiceServer.
SrvListen ==
    /\ srvPc = "init"
    /\ \/ /\ srvPc' = "serving"
          /\ srvExit' = srvExit
       \/ /\ srvPc' = "exited"
          /\ srvExit' = <<FatalStatus, "listen">>
    /\ UNCHANGED <<calls, cliVars, ctxVars, reqVars>>

\* s.Serve(lis) returns an error.
SrvServeFail ==
    /\ srvPc = "serving"
    /\ srvPc' = "exited"
    /\ srvExit' = <<FatalStatus, "serve">>
    /\ UNCHANGED <<calls, cliVars, ctxVars, reqVars>>

\* Another caller's unary call is accepted and SayHello runs.
OtherUnary(n) ==
    /\ srvPc = "serving"
    /\ NumOther < MaxOther
    /\ calls' = Append(calls, SayHello(NewCall("unary", "other", n, EndedRets)))
    /\ UNCHANGED <<srvPc, srvExit, cliVars, ctxVars, reqVars>>

\* Another caller's streaming call is accepted and SayHelloMultiple starts.
OtherStream(n) ==
    /\ srvPc = "serving"
    /\ NumOther < MaxOther
    /\ calls' = Append(calls, StreamBegin(NewCall("stream", "other", n, EndedRets)))
    /\ UNCHANGED <<srvPc, srvExit, cliVars, ctxVars, reqVars>>

\* A caller that waits for each of its calls to end before the next: its
\* unary call is accepted and SayHello runs.
NextUnary(n) ==
    /\ srvPc = "serving"
    /\ Len(calls) < MaxHistory
    /\ \A k \in CallIds : Ended(calls[k])
    /\ calls' = Append(calls, SayHello(NewCall("unary", "other", n, EndedRets)))
    /\ UNCHANGED <<srvPc, srvExit, cliVars, ctxVars, reqVars>>

\* The same caller's streaming call is accepted and SayHelloMultiple starts.
NextStream(n) ==
    /\ srvPc = "serving"
    /\ Len(calls) < MaxHistory
    /\ \A k \in CallIds : Ended(calls[k])
    /\ calls' = Append(calls, StreamBegin(NewCall("stream", "other", n, EndedRets)))
    /\ UNCHANGED <<srvPc, srvExit, cliVars, ctxVars, reqVars>>

\* The client's unary request reaches the server and SayHello runs, whether
\* or not the client still waits for the reply: the handler's context is done
\* when the client's deadline has passed or the client is gone.
ServeClientUnary ==
    /\ srvPc = "serving"
    /\ unaryReq = "pending"
    /\ calls' = Append(calls,
                       SayHello([NewCall("unary", "client", ClientUnaryName, EndedRets)
                                    EXCEPT !.ctx = IF CtxDone(UnaryCallCtx)
                                                      \/ cliPc = "exited"
                                                   THEN "done" ELSE "live"]))
    /\ unaryReq' = "served"
    /\ cliUnaryId' = Len(calls) + 1
    /\ UNCHANGED <<srvPc, srvExit, cliVars, ctxVars, streamReq, cliStreamId, wire>>

\* The client's streaming request reaches the server and SayHelloMultiple starts.
ServeClientStream ==
    /\ srvPc = "serving"
    /\ streamReq = "pending"
    /\ calls' = Append(calls,
                       StreamBegin(NewCall("stream", "client", ClientStreamName, EndedRets)))
    /\ streamReq' = "served"
    /\ cliStreamId' = Len(calls) + 1
    /\ UNCHANGED <<srvPc, srvExit, cliVars, ctxVars, unaryReq, cliUnaryId, wire>>

\* One loop iteration of call k: stream.Send succeeds or fails.
StreamSend(k) ==
    /\ srvPc = "serving"
    /\ calls[k].kind = "stream"
    /\ calls[k].pc = "loop"
    /\ LoopCond(calls[k].i)
    /\ \E err \in {"nil"} \cup SendErrors :
          /\ calls' = [calls EXCEPT ![k] =
                          [StreamIterate(@, err) EXCEPT !.failed =
                              IF err # "nil" /\ @ = <<>>
                              THEN <<[at |-> calls[k].i, err |-> err]>>
                              ELSE @]]
          /\ wire' = IF err = "nil" /\ k = cliStreamId
                     THEN Append(wire, StreamResponse(calls[k].req, IterIndex(calls[k])))
                     ELSE wire
          /\ srvPc' = IF err = "nil" THEN srvPc ELSE SrvAfterSendError(srvPc)
          /\ srvExit' = IF srvPc' = "exited" THEN <<FatalStatus, "send">> ELSE srvExit
    /\ UNCHANGED <<cliVars, ctxVars, unaryReq, streamReq, cliUnaryId, cliStreamId>>

\* time.Sleep of call k returns.
StreamWake(k) ==
    /\ srvPc = "serving"
    /\ calls[k].pc = "sleep"
    /\ calls[k].timer = 0
    /\ calls' = [calls EXCEPT ![k] = StreamAdvance(@)]
    /\ UNCHANGED <<srvPc, srvExit, cliVars, ctxVars, reqVars>>

\* The loop of call k is over: the handler returns nil.
StreamReturn(k) ==
    /\ srvPc = "serving"
    /\ calls[k].kind = "stream"
    /\ calls[k].pc = "loop"
    /\ ~LoopCond(calls[k].i)
    /\ calls' = [calls EXCEPT ![k] = StreamFinish(@)]
    /\ UNCHANGED <<srvPc, srvExit, cliVars, ctxVars, reqVars>>

\* ------------------------------------------------------------- the client

Push(stack, f) == <<f>> \o stack

\* log.Printf for log.Fatalf: the line is logged and main stays where it was.
FatalLogOnly(step, format, err) ==
    /\ cliOut' = Append(cliOut, Sprintf(format, <<StrArg(err)>>))
    /\ UNCHANGED <<cliPc, cliExit, cliFatal, defers, cleanup, conn, cur, received>>

\* log.Fatalf leaving main as a return does: the deferred calls run first.
FatalRunsDefers(step, format, err) ==
    /\ cliPc' = "exited"
    /\ cliExit' = <<FatalStatus>>
    /\ cliFatal' = <<[step |-> step, err |-> err]>>
    /\ cliOut' = Append(cliOut, Sprintf(format, <<StrArg(err)>>))
    /\ cleanup' = cleanup \o defers
    /\ defers' = <<>>
    /\ conn' = IF \E j \in 1..Len(defers) : defers[j] = "close" THEN "closed" ELSE conn
    /\ UNCHANGED <<cur, received>>

\* log.Fatalf(format, err): log the line, os.Exit(1); deferred calls do not run.
Fatal(step, format, err) ==
    /\ cliPc' = "exited"
    /\ cliExit' = <<FatalStatus>>
    /\ cliFatal' = <<[step |-> step, err |-> err]>>
    /\ cliOut' = Append(cliOut, Sprintf(format, <<StrArg(err)>>))
    /\ UNCHANGED <<defers, cleanup, conn, cur, received>>

\* The results client.SayHello can return now: the reply once the server
\* produced it, the context's error once the context is done, a transport error.
UnaryResults ==
    (IF unaryReq = "served" THEN {[err |-> "nil", resp |-> calls[cliUnaryId].resp]} ELSE {})
    \cup (IF CtxDone(UnaryCallCtx) THEN {[err |-> CtxErr, resp |-> <<>>]} ELSE {})
    \cup {[err |-> "Unavailable", resp |-> <<>>]}

\* The results stream.Recv can return now: the next item in flight; once none
\* is in flight the handler's result (io.EOF for nil); the context's error
\* once the context is done; a transport error.
RecvResults ==
    (IF wire # <<>> THEN {[err |-> "nil", resp |-> <<Head(wire)>>]}
     ELSE IF cliStreamId # 0 /\ Ended(calls[cliStreamId])
          THEN {[err |-> IF calls[cliStreamId].ret = "nil" THEN "EOF"
                         ELSE calls[cliStreamId].ret,
                 resp |-> <<>>]}
          ELSE {})
    \cup (IF CtxDone(StreamCallCtx) THEN {[err |-> CtxErr, resp |-> <<>>]} ELSE {})
    \cup {[err |-> "Unavailable", resp |-> <<>>]}

\* grpc.NewClient; on an error log.Fatalf, else defer conn.Close().  The
\* result does not depend on whether the server can be reached.
ClientConnect ==
    /\ cliPc = "start"
    /\ attempts' = [attempts EXCEPT !.connect = @ + 1]
    /\ reachAtConnect' = (srvPc = "serving")
    /\ \E err \in {"nil", "InvalidTarget"} :
          /\ errs' = [errs EXCEPT !.connect = err]
          /\ IF err # "nil"
             THEN Fatal("connect", <<"Failed to connect: ", "%v">>, err)
             ELSE /\ cliPc' = "connected"
                  /\ conn' = "open"
                  /\ defers' = Push(defers, "close")
                  /\ cliOut' = Append(cliOut, "gRPC Client started...")
                  /\ UNCHANGED <<cliExit, cliFatal, cleanup, cur, received>>
    /\ UNCHANGED <<srvVars, ctxVars, reqVars>>

\* context.WithTimeout, defer cancel(), and the start of client.SayHello.
ClientCallUnary ==
    /\ cliPc = "connected"
    /\ cliPc' = "unary_wait"
    /\ ctxState' = "active"
    /\ ctxLeft' = UnaryTimeoutSecs
    /\ defers' = Push(defers, "cancel")
    /\ unaryReq' = "pending"
    /\ attempts' = [attempts EXCEPT !.unary = @ + 1]
    /\ cliOut' = Append(cliOut, "Making simple SayHello call...")
    /\ errs' = errs
    /\ UNCHANGED <<srvVars, cliExit, cliFatal, cleanup, conn, reachAtConnect, cur,
                   received, waited, streamReq, cliUnaryId, cliStreamId, wire>>

\* client.SayHello returns; on an error log.Fatalf, else print the reply.
ClientUnaryReturn ==
    /\ cliPc = "unary_wait"
    /\ \E r \in UnaryResults :
          /\ errs' = [errs EXCEPT !.unary = r.err]
          /\ IF r.err # "nil"
             THEN Fatal("unary", <<"Error calling SayHello: ", "%v">>, r.err)
             ELSE /\ cliPc' = "unary_ok"
                  /\ cliOut' = cliOut \o
                        <<Sprintf(<<"Response: ", "%s">>, <<StrArg(r.resp[1].message)>>),
                          Sprintf(<<"   Count: ", "%d">>, <<IntArg(r.resp[1].count)>>)>>
                  /\ UNCHANGED <<cliExit, cliFatal, defers, cleanup, conn, cur, received>>
    /\ UNCHANGED <<srvVars, ctxVars, reqVars, reachAtConnect, attempts>>

\* client.SayHelloMultiple issued without waiting for client.SayHello to return.
ClientOpenStreamEarly ==
    /\ cliPc \in {"unary_wait", "unary_ok"}
    /\ attempts' = [attempts EXCEPT !.open = @ + 1]
    /\ \E err \in {"nil", "Unavailable"} \cup
                  (IF CtxDone(StreamCallCtx) THEN {CtxErr} ELSE {}) :
          /\ errs' = [errs EXCEPT !.open = err]
          /\ IF err # "nil"
             THEN /\ Fatal("open", <<"Error calling SayHelloMultiple: ", "%v">>, err)
                  /\ streamReq' = streamReq
             ELSE /\ cliPc' = "recv"
                  /\ streamReq' = "pending"
                  /\ cliOut' = Append(cliOut, "Making streaming SayHelloMultiple call...")
                  /\ UNCHANGED <<cliExit, cliFatal, defers, cleanup, conn, cur, received>>
    /\ UNCHANGED <<srvVars, ctxVars, reachAtConnect, unaryReq, cliUnaryId,
                   cliStreamId, wire>>

\* client.SayHelloMultiple; on an error log.Fatalf, else enter the receive loop.
ClientOpenStream ==
    /\ cliPc = "unary_ok"
    /\ attempts' = [attempts EXCEPT !.open = @ + 1]
    /\ \E err \in {"nil", "Unavailable"} \cup
                  (IF CtxDone(StreamCallCtx) THEN {CtxErr} ELSE {}) :
          /\ errs' = [errs EXCEPT !.open = err]
          /\ IF err # "nil"
             THEN /\ Fatal("open", <<"Error calling SayHelloMultiple: ", "%v">>, err)
                  /\ streamReq' = streamReq
             ELSE /\ cliPc' = "recv"
                  /\ streamReq' = "pending"
                  /\ cliOut' = Append(cliOut, "Making streaming SayHelloMultiple call...")
                  /\ UNCHANGED <<cliExit, cliFatal, defers, cleanup, conn, cur, received>>
    /\ UNCHANGED <<srvVars, ctxVars, reachAtConnect, unaryReq, cliUnaryId,
                   cliStreamId, wire>>

\* The loop leaving on any error of stream.Recv as it does on io.EOF.
RecvBranchAnyErrorEnds(err) ==
    IF err # "nil" THEN "complete"
    ELSE "item"

\* The loop with err != nil tested before err == io.EOF.
RecvBranchErrFirst(err) ==
    IF err # "nil" THEN "fatal"
    ELSE IF err = "EOF" THEN "complete"
    ELSE "item"

\* What the loop does with the error of stream.Recv: io.EOF is tested
\* first and leaves the loop, any other error is fatal, nil is an item.
RecvBranch(err) ==
    IF err = "EOF" THEN "complete"
    ELSE IF err # "nil" THEN "fatal"
    ELSE "item"

\* stream.Recv returns and the loop acts on its error.
ClientRecv ==
    /\ cliPc = "recv"
    /\ attempts' = [attempts EXCEPT !.recv = @ + 1]
    /\ \E r \in RecvResults :
          /\ errs' = [errs EXCEPT !.recv = r.err]
          /\ wire' = IF r.resp # <<>> THEN Tail(wire) ELSE wire
          /\ CASE RecvBranch(r.err) = "complete" ->
                    /\ cliPc' = "complete"
                    /\ cliOut' = Append(cliOut, "Streaming complete!")
                    /\ UNCHANGED <<cliExit, cliFatal, defers, cleanup, conn, cur,
                                   received>>
               [] RecvBranch(r.err) = "fatal" ->
                    Fatal("recv", <<"Error receiving stream: ", "%v">>, r.err)
               [] RecvBranch(r.err) = "item" ->
                    /\ cliPc' = "item"
                    /\ cur' = r.resp
                    /\ UNCHANGED <<cliExit, cliFatal, defers, cleanup, conn, received,
                                   cliOut>>
    /\ UNCHANGED <<srvVars, ctxVars, reachAtConnect, unaryReq, streamReq,
                   cliUnaryId, cliStreamId>>

\* The loop body after Recv: print the item, loop.
ClientPrintItem ==
    /\ cliPc = "item"
    /\ cliPc' = "recv"
    /\ received' = Append(received, cur[1])
    /\ cliOut' = Append(cliOut,
                        Sprintf(<<"Received: ", "%s", " (Count: ", "%d", ")">>,
                                <<StrArg(cur[1].message), IntArg(cur[1].count)>>))
    /\ cur' = <<>>
    /\ UNCHANGED <<srvVars, ctxVars, reqVars, cliExit, cliFatal, defers, cleanup,
                   conn, reachAtConnect, attempts, errs>>

\* The end of main: log, return; the deferred calls run last pushed first.
ClientFinish ==
    /\ cliPc = "complete"
    /\ cliPc' = "exited"
    /\ cliExit' = <<OkStatus>>
    /\ cliOut' = Append(cliOut, "Client finished successfully!")
    /\ cleanup' = cleanup \o defers
    /\ defers' = <<>>
    /\ conn' = IF \E j \in 1..Len(defers) : defers[j] = "close" THEN "closed" ELSE conn
    /\ ctxState' = IF (\E j \in 1..Len(defers) : defers[j] = "cancel")
                      /\ ctxState = "active"
                   THEN "canceled" ELSE ctxState
    /\ UNCHANGED <<srvVars, reqVars, cliFatal, reachAtConnect, cur, received,
                   attempts, errs, ctxLeft, waited>>

\* ------------------------------------------------------------------- time

Min(a, b) == IF a < b THEN a ELSE b

\* One second passes: the unary context's deadline and the handlers' sleeps
\* come a second nearer.  A call blocked on a context that is done returns
\* before more time passes.
Tick ==
    /\ \/ ctxState = "active"
       \/ cliPc = "unary_wait"
       \/ srvPc = "serving" /\ \E k \in CallIds : calls[k].timer > 0
    /\ ~(cliPc = "unary_wait" /\ CtxDone(UnaryCallCtx))
    /\ ctxLeft' = IF ctxState = "active" THEN ctxLeft - 1 ELSE ctxLeft
    /\ ctxState' = IF ctxState = "active" /\ ctxLeft' = 0 THEN "expired" ELSE ctxState
    /\ waited' = IF cliPc = "unary_wait" THEN Min(waited + 1, MaxWait) ELSE waited
    /\ calls' = [k \in CallIds |->
                    IF calls[k].timer > 0
                    THEN [calls[k] EXCEPT !.timer = @ - 1]
                    ELSE calls[k]]
    /\ UNCHANGED <<srvPc, srvExit, cliVars, reqVars>>

\* ------------------------------------------------------ the specification

\* The greeting client against the server.
Next ==
    \/ SrvListen
    \/ SrvServeFail
    \/ ServeClientUnary
    \/ ServeClientStream
    \/ \E k \in CallIds : StreamSend(k)
    \/ \E k \in CallIds : StreamWake(k)
    \/ \E k \in CallIds : StreamReturn(k)
    \/ ClientConnect
    \/ ClientCallUnary
    \/ ClientUnaryReturn
    \/ ClientOpenStream
    \/ ClientRecv
    \/ ClientPrintItem
    \/ ClientFinish
    \/ Tick

Spec == Init /\ [][Next]_vars

\* The server under concurrent calls of any callers.
ServerNext ==
    \/ SrvListen
    \/ SrvServeFail
    \/ \E n \in Names : OtherUnary(n)
    \/ \E n \in Names : OtherStream(n)
    \/ \E k \in CallIds : StreamSend(k)
    \/ \E k \in CallIds : StreamWake(k)
    \/ \E k \in CallIds : StreamReturn(k)
    \/ Tick

ServerSpec == Init /\ [][ServerNext]_vars

\* The server under a history of calls served one after another.
HistoryNext ==
    \/ SrvListen
    \/ SrvServeFail
    \/ \E n \in Names : NextUnary(n)
    \/ \E n \in Names : NextStream(n)
    \/ \E k \in CallIds : StreamSend(k)
    \/ \E k \in CallIds : StreamWake(k)
    \/ \E k \in CallIds : StreamReturn(k)
    \/ Tick

HistorySpec == Init /\ [][HistoryNext]_vars

\* ------------------------------------------------------------- the claims

\* The greetings as the service contract words them.
ExpectedUnary(n) ==
    [message |-> "Hello, " \o n \o "! Welcome to gRPC with Go!", count |-> 1]

ExpectedItem(i, n) ==
    [message |-> "Hello #" \o ToString(i) \o ", " \o n \o "! Streaming response "
                 \o ToString(i) \o " of 5",
     count |-> i]

\* The contract's greetings for every name tried, tabulated.
ExpectedStream == [n \in ProbeNames |-> [j \in 1..5 |-> ExpectedItem(j, n)]]
ExpectedGreeting == [n \in ProbeNames |-> ExpectedUnary(n)]

ExpectedItems(n, len) == SubSeq(ExpectedStream[n], 1, len)

\* What the handlers build for every name tried is what the contract words.
StreamFormatAgrees ==
    \A n \in ProbeNames : \A i \in 1..5 :
        StreamResponse(HelloRequest(n), i) = ExpectedItem(i, n)

UnaryFormatAgrees ==
    \A n \in ProbeNames : UnaryResponse(HelloRequest(n)) = ExpectedUnary(n)

StreamIds == {k \in CallIds : calls[k].kind = "stream"}
UnaryIds == {k \in CallIds : calls[k].kind = "unary"}

\* C1: a streaming call all of whose sends succeed emits, for every name,
\* exactly the 5 responses "Hello #i, {name}! Streaming response i of 5" with
\* count = i, in order; it then returns nil (clean end-of-stream), and a call
\* that has returned nil never holds more or other items than these 5.
C1_StreamYieldsFive ==
    /\ \A k \in StreamIds :
          LET c == calls[k]
          IN  /\ c.failed = <<>> =>
                    /\ Len(c.sent) <= 5
                    /\ c.sent = ExpectedItems(c.req.name, Len(c.sent))
                    /\ c.tried = c.sent
                    /\ c.ret \in {"pending", "nil"}
              /\ c.ret = "nil" =>
                    /\ c.failed = <<>>
                    /\ c.sent = ExpectedItems(c.req.name, 5)
                    /\ c.pc = "done"
              /\ (c.failed = <<>> /\ c.ret = "pending" /\ Len(c.sent) = 5) =>
                    c.pc \in {"sleep", "loop"}
    /\ StreamFormatAgrees

\* C1 witness: a call for "Bob" returned nil after its five items.
C1_Witness ==
    \E k \in StreamIds :
        /\ calls[k].req.name = "Bob"
        /\ calls[k].ret = "nil"
        /\ Len(calls[k].sent) = 5
        /\ calls[k].sent[5] =
              [message |-> "Hello #5, Bob! Streaming response 5 of 5", count |-> 5]

\* C2: for every name, the empty string included, SayHello returns no error
\* and the response "Hello, {name}! Welcome to gRPC with Go!" with count 1.
C2_UnaryGreeting ==
    /\ \A k \in UnaryIds :
          /\ calls[k].ret = "nil"
          /\ calls[k].resp = <<ExpectedGreeting[calls[k].req.name]>>
    /\ UnaryFormatAgrees

\* C2 witness: the empty name was greeted with "Hello, !".
C2_Witness ==
    \E k \in UnaryIds :
        /\ calls[k].req.name = ""
        /\ calls[k].resp =
              <<[message |-> "Hello, ! Welcome to gRPC with Go!", count |-> 1]>>

\* C3: when the send of item k fails, the handler has returned that same error,
\* item k is the last it tried to send, the items sent are exactly 1..k-1 in
\* order, and the call never ends with nil.
C3_SendFailureAborts ==
    \A k \in StreamIds :
        LET c == calls[k]
        IN  c.failed # <<>> =>
               /\ c.ret = c.failed[1].err
               /\ c.ret \in SendErrors
               /\ c.pc = "done"
               /\ c.failed[1].at \in 1..5
               /\ Len(c.tried) = c.failed[1].at
               /\ c.tried = ExpectedItems(c.req.name, c.failed[1].at)
               /\ c.sent = ExpectedItems(c.req.name, c.failed[1].at - 1)

\* C3 witness: the send of item 3 failed with "Canceled" after items 1 and 2.
C3_Witness ==
    \E k \in StreamIds :
        /\ calls[k].failed = <<[at |-> 3, err |-> "Canceled"]>>
        /\ Len(calls[k].sent) = 2
        /\ calls[k].ret = "Canceled"

\* The streaming consumer's state, read off the client's position.
ConsumerState ==
    IF cliPc = "recv" THEN "WAITING"
    ELSE IF cliPc = "item" THEN "ITEM_RECEIVED"
    ELSE IF cliPc = "complete" \/ (cliPc = "exited" /\ cliExit = <<OkStatus>>)
         THEN "DONE"
    ELSE IF cliPc = "exited" /\ cliFatal # <<>> /\ cliFatal[1].step = "recv"
         THEN "FAILED"
    ELSE "NONE"

ConsumerStep ==
    LET s == ConsumerState
        t == ConsumerState'
    IN  /\ s = "NONE" => t \in {"NONE", "WAITING"}
        /\ s = "WAITING" => t \in {"WAITING", "ITEM_RECEIVED", "DONE", "FAILED"}
        /\ s = "ITEM_RECEIVED" => t \in {"ITEM_RECEIVED", "WAITING"}
        /\ s \in {"DONE", "FAILED"} =>
              /\ t = s
              /\ attempts'.recv = attempts.recv
              /\ received' = received
              /\ cur' = cur
        /\ attempts'.recv # attempts.recv =>
              /\ s = "WAITING"
              /\ attempts'.recv = attempts.recv + 1
              /\ t \in {"ITEM_RECEIVED", "DONE", "FAILED"}
              /\ t = "ITEM_RECEIVED" <=> errs'.recv = "nil"
              /\ t = "DONE" <=> errs'.recv = "EOF"
              /\ t = "FAILED" <=> errs'.recv \notin {"nil", "EOF"}
        /\ (s = "WAITING" /\ t # "WAITING") => attempts'.recv = attempts.recv + 1
        /\ t = "FAILED" => cliExit' = <<FatalStatus>>
        /\ received' # received =>
              /\ s = "ITEM_RECEIVED" /\ t = "WAITING"
              /\ received' = Append(received, cur[1])

\* C4: the client's streaming consumer starts in WAITING; a receive moves
\* WAITING to ITEM_RECEIVED (an item), to DONE (exactly on clean
\* end-of-stream) or to FAILED (any other error, the process exits); an item
\* is processed on the way from ITEM_RECEIVED back to WAITING; after DONE or
\* FAILED no receive is attempted and no item is processed.
C4_ConsumerMachine == [][ConsumerStep]_vars

\* C4 witness: the consumer is DONE after five items and a sixth receive that
\* reported end-of-stream.
C4_Witness ==
    /\ ConsumerState = "DONE"
    /\ cliPc = "complete"
    /\ Len(received) = 5
    /\ attempts.recv = 6
    /\ errs.recv = "EOF"

\* C5: the client never waits in the unary call for more than 5 seconds; when
\* 5 seconds have passed without a reply the call can only end, and if it ends
\* with deadline-exceeded the client has logged it and exited with a nonzero
\* status without issuing the streaming call.
C5_UnaryDeadline ==
    /\ waited <= 5
    /\ (cliPc = "unary_wait" /\ waited = 5) =>
          [err |-> "DeadlineExceeded", resp |-> <<>>] \in UnaryResults
    /\ errs.unary = "DeadlineExceeded" =>
          /\ waited = 5
          /\ cliPc = "exited"
          /\ cliExit = <<1>>
          /\ cliFatal = <<[step |-> "unary", err |-> "DeadlineExceeded"]>>
          /\ cliOut[Len(cliOut)] = "Error calling SayHello: DeadlineExceeded"
          /\ attempts.open = 0
          /\ streamReq = "none"
          /\ cliStreamId = 0

\* C5 witness: the server was serving, the request was still not handled after
\* 5 seconds, and the call ended with deadline-exceeded.
C5_Witness ==
    /\ errs.unary = "DeadlineExceeded"
    /\ srvPc = "serving"
    /\ unaryReq = "pending"
    /\ waited = 5

\* C6: if the server cannot be reached when the client runs its connect step,
\* the client ends at the connect step and issues neither call.
C6_FailFastOnUnreachable ==
    (attempts.connect > 0 /\ ~reachAtConnect) =>
        /\ cliFatal # <<>>
        /\ cliFatal[1].step = "connect"
        /\ attempts.unary = 0
        /\ attempts.open = 0

ClientSteps == {"connect", "unary", "open", "recv"}

\* C7 as stated: every failure is fatal to its process, a failed send to the
\* server process, and nothing is retried.
C7_EveryFailureFatal ==
    /\ \A st \in ClientSteps :
          errs[st] \notin {"", "nil", "EOF"} =>
              cliPc = "exited" /\ cliExit = <<1>>
    /\ \A st \in {"connect", "unary", "open"} : attempts[st] <= 1
    /\ \A k \in StreamIds :
          calls[k].failed # <<>> => srvPc = "exited"

\* C7 amended: a connect, call or receive failure ends the client process with
\* a nonzero status at that step and the step is not run again; a failed send
\* ends only its call (the handler returns the error and sends nothing more),
\* and the server process ends only when listening or serving fails.
C7_FailuresFatalToClientOnly ==
    /\ \A st \in ClientSteps :
          errs[st] \notin {"", "nil", "EOF"} =>
              /\ cliPc = "exited"
              /\ cliExit = <<1>>
              /\ cliFatal = <<[step |-> st, err |-> errs[st]]>>
    /\ \A st \in {"connect", "unary", "open"} : attempts[st] <= 1
    /\ cliFatal # <<>> => errs[cliFatal[1].step] = cliFatal[1].err
    /\ \A k \in StreamIds :
          calls[k].failed # <<>> =>
              /\ Ended(calls[k])
              /\ calls[k].ret = calls[k].failed[1].err
              /\ Len(calls[k].tried) = calls[k].failed[1].at
    /\ srvExit # <<>> => srvExit[2] \in {"listen", "serve"}

\* C7 witness: a send of the client's stream failed, the server still serves,
\* and the client ended on the error its receive reported.
C7_Witness ==
    /\ cliStreamId # 0
    /\ calls[cliStreamId].failed # <<>>
    /\ srvPc = "serving"
    /\ cliFatal = <<[step |-> "recv", err |-> calls[cliStreamId].failed[1].err]>>
    /\ Len(received) = calls[cliStreamId].failed[1].at - 1

\* C8: the streaming call never ends on a deadline: opening it and receiving
\* from it never report deadline-exceeded, whatever the state of the unary
\* context; once opened it is left only on end-of-stream or on a receive
\* error that ends the process.
C8_StreamHasNoTimeout ==
    /\ errs.open # "DeadlineExceeded"
    /\ errs.recv # "DeadlineExceeded"
    /\ (errs.open = "nil" /\ cliPc \notin {"recv", "item"}) =>
          \/ errs.recv = "EOF" /\ cliPc \in {"complete", "exited"} /\ cliFatal = <<>>
          \/ /\ cliPc = "exited"
             /\ cliFatal = <<[step |-> "recv", err |-> errs.recv]>>
             /\ errs.recv \in {"Unavailable"} \cup SendErrors

\* C8 witness: the unary context's deadline passed while the stream was being
\* consumed, and the client still received all five items and ended normally.
C8_Witness ==
    /\ ctxState = "expired"
    /\ cliExit = <<0>>
    /\ Len(received) = 5
    /\ errs.recv = "EOF"

\* C9: the server process ends only when listening or serving fails; a call
\* accepted after other calls ended, with errors or without, is served as any
\* other: a unary call gets its greeting, a streaming call whose sends succeed
\* its items 1..5.
C9_ServerKeepsServing ==
    /\ srvExit # <<>> => srvExit[2] \in {"listen", "serve"}
    /\ srvPc = "exited" <=> srvExit # <<>>
    /\ \A k \in CallIds :
          LET c == calls[k]
          IN  c.before # {} =>
                 /\ c.kind = "unary" =>
                       c.ret = "nil" /\ c.resp = <<ExpectedGreeting[c.req.name]>>
                 /\ (c.kind = "stream" /\ c.failed = <<>>) =>
                       /\ c.sent = ExpectedItems(c.req.name, Len(c.sent))
                       /\ c.ret = "nil" => Len(c.sent) = 5
                       /\ (srvPc = "serving" /\ c.ret = "pending") =>
                             c.pc \in {"loop", "sleep"}

\* C9 witness: a streaming call accepted after another call had ended on a
\* failed send returned nil after its five items.
C9_Witness ==
    \E k \in StreamIds :
        /\ calls[k].before \cap SendErrors # {}
        /\ calls[k].ret = "nil"
        /\ Len(calls[k].sent) = 5

\* C10: in every interleaving of concurrent calls each streaming call has sent
\* the counts 1, 2, ... in order with the messages for its own name, one
\* attempt at most beyond what it sent, and each unary call holds the greeting
\* for its own name.
C10_CallsIsolated ==
    \A k \in CallIds :
        LET c == calls[k]
        IN  /\ c.kind = "stream" =>
                  /\ Len(c.sent) <= 5
                  /\ \A j \in 1..Len(c.sent) :
                        /\ c.sent[j].count = j
                        /\ c.sent[j] = ExpectedStream[c.req.name][j]
                  /\ c.i = (IF c.pc = "sleep" THEN Len(c.sent)
                            ELSE IF c.pc = "loop" THEN Len(c.sent) + 1
                            ELSE c.i)
                  /\ c.sleeps = Len(c.sent)
            /\ c.kind = "unary" =>
                  c.resp = <<ExpectedGreeting[c.req.name]>> /\ c.sent = <<>>

\* C10 witness: two streaming calls for different names are both under way,
\* each between its second and its fourth item.
C10_Witness ==
    \E k \in StreamIds : \E j \in StreamIds :
        /\ calls[k].req.name # calls[j].req.name
        /\ calls[k].ret = "pending" /\ calls[j].ret = "pending"
        /\ Len(calls[k].sent) = 2
        /\ Len(calls[j].sent) = 3

\* C11: two SayHello calls with the same name hold the same reply, message and
\* count, and the same nil error, whatever calls were served before or between
\* them.
C11_UnaryHistoryIndependent ==
    \A j \in UnaryIds : \A k \in UnaryIds :
        calls[j].req.name = calls[k].req.name =>
            /\ Len(calls[j].resp) = 1
            /\ calls[j].resp[1].message = calls[k].resp[1].message
            /\ calls[j].resp[1].count = calls[k].resp[1].count
            /\ calls[j].ret = calls[k].ret

\* C11 witness: "Bob" was greeted, a streaming call then ended on a failed
\* send, and "Bob" was greeted again with the same words.
C11_Witness ==
    /\ Len(calls) = 3
    /\ calls[1].kind = "unary" /\ calls[1].req.name = "Bob"
    /\ calls[2].kind = "stream" /\ calls[2].failed # <<>>
    /\ calls[3].kind = "unary" /\ calls[3].req.name = "Bob"
    /\ calls[3].before = {"nil", calls[2].ret}
    /\ calls[3].resp = <<[message |-> "Hello, Bob! Welcome to gRPC with Go!", count |-> 1]>>
    /\ calls[1].resp = calls[3].resp

\* C12: the SayHello handler does not look at its context: whenever it ran for
\* the client's call, before or after the client's deadline passed and the
\* client gave the call up, it logged the request and returned its normal
\* response with a nil error.
C12_HandlerIgnoresDeadline ==
    cliUnaryId # 0 =>
        LET c == calls[cliUnaryId]
        IN  /\ unaryReq = "served"
            /\ c.owner = "client" /\ c.kind = "unary"
            /\ c.ret = "nil"
            /\ c.pc = "done"
            /\ c.resp = <<[message |-> "Hello, Alice! Welcome to gRPC with Go!",
                           count |-> 1]>>
            /\ c.log = <<"Received request from: Alice">>

\* C12 witness: the client ended on deadline-exceeded with its request not yet
\* handled; the handler then ran on a context that was done and returned nil.
C12_Witness ==
    /\ cliUnaryId # 0
    /\ calls[cliUnaryId].ctx = "done"
    /\ calls[cliUnaryId].ret = "nil"
    /\ errs.unary = "DeadlineExceeded"
    /\ cliPc = "exited"

\* The steps of the client that failed so far: a non-nil error of connect, of
\* the unary call, of opening the stream, or an error of Recv other than io.EOF.
FailedSteps ==
    {st \in {"connect", "unary", "open"} : errs[st] \notin {"", "nil"}}
    \cup (IF errs.recv \notin {"", "nil", "EOF"} THEN {"recv"} ELSE {})

\* C13: the client ends with status 0 exactly when connect succeeded, the
\* unary call returned a response and the receive loop ended on io.EOF; any
\* failed step ends it at once with the nonzero status of log.Fatalf, and a
\* run that has not ended has no status.
C13_ExitStatus ==
    /\ (cliPc = "exited") <=> (cliExit # <<>>)
    /\ cliExit \in {<<>>, <<OkStatus>>, <<FatalStatus>>}
    /\ FatalStatus # 0 /\ OkStatus = 0
    /\ cliExit = <<OkStatus>> <=>
          /\ cliPc = "exited"
          /\ errs.connect = "nil"
          /\ errs.unary = "nil"
          /\ errs.recv = "EOF"
    /\ cliExit = <<OkStatus>> => FailedSteps = {} /\ errs.open = "nil"
    /\ FailedSteps # {} <=> cliExit = <<FatalStatus>>
    /\ errs.recv \notin {"", "nil"} =>
          /\ cliPc \in {"complete", "exited"}
          /\ errs.recv = "EOF" <=> cliFatal = <<>>

\* C13 witness: a run that ended with status 0 after io.EOF.
C13_Witness ==
    /\ cliExit = <<OkStatus>>
    /\ errs = [connect |-> "nil", unary |-> "nil", open |-> "nil", recv |-> "EOF"]
    /\ cliFatal = <<>>

\* What the client holds of its streaming call: the items printed, then the
\* item Recv just returned, if any.
ClientHolds == received \o cur

\* C14: at every moment the items the client received on its streaming call
\* are the first k of the five items for "Bob", with counts 1..k in order, and
\* nothing sent to it is lost, repeated or reordered on the way; once the loop
\* has ended on io.EOF, and so when "Client finished successfully!" is printed,
\* the client has received exactly the five items 1,2,3,4,5.
C14_EndToEndStream ==
    /\ Len(ClientHolds) <= 5
    /\ ClientHolds = SubSeq(ExpectedStream["Bob"], 1, Len(ClientHolds))
    /\ \A j \in 1..Len(ClientHolds) : ClientHolds[j].count = j
    /\ cliStreamId = 0 => ClientHolds = <<>> /\ wire = <<>>
    /\ cliStreamId # 0 => ClientHolds \o wire = calls[cliStreamId].sent
    /\ (cliPc = "complete" \/ cliExit = <<OkStatus>>) =>
          /\ received = ExpectedStream["Bob"]
          /\ Len(received) = 5
          /\ cur = <<>>
    /\ (Len(cliOut) > 0 /\ cliOut[Len(cliOut)] = "Client finished successfully!") =>
          [j \in 1..Len(received) |-> received[j].count] = <<1, 2, 3, 4, 5>>

\* C14 witness: the client printed its last line holding the five items.
C14_Witness ==
    /\ cliOut # <<>>
    /\ cliOut[Len(cliOut)] = "Client finished successfully!"
    /\ Len(received) = 5
    /\ received[1] = [message |-> "Hello #1, Bob! Streaming response 1 of 5", count |-> 1]
    /\ received[5] = [message |-> "Hello #5, Bob! Streaming response 5 of 5", count |-> 5]

\* The client's unary call is in flight from its issue until it returns; its
\* streaming call from its opening until the receive loop ends.
UnaryInFlight == attempts.unary > 0 /\ errs.unary = ""

StreamInFlight == streamReq # "none" /\ cliPc \in {"recv", "item"}

\* A step that issues a call of the client.
IssuesUnary == attempts'.unary > attempts.unary

IssuesStream == attempts'.open > attempts.open

\* C15: the client issues SayHelloMultiple only after SayHello has returned a
\* response with no error, its two calls are never in flight together, and a
\* run issues at most one unary and at most one streaming call.
C15_StrictlySequential ==
    /\ [](/\ attempts.unary <= 1
          /\ attempts.open <= 1
          /\ ~(UnaryInFlight /\ StreamInFlight)
          /\ attempts.open > 0 =>
                /\ attempts.unary = 1
                /\ errs.unary = "nil"
                /\ unaryReq = "served"
          /\ UnaryInFlight <=> cliPc = "unary_wait")
    /\ [][/\ IssuesStream =>
                /\ cliPc = "unary_ok"
                /\ errs.unary = "nil"
                /\ ~UnaryInFlight
                /\ attempts.open = 0
          /\ IssuesUnary =>
                /\ attempts.unary = 0
                /\ attempts.open = 0
                /\ ~IssuesStream]_vars

\* C15 witness: the streaming call is in flight, opened after the unary call
\* returned its reply; one call of each kind has been issued.
C15_Witness ==
    /\ StreamInFlight
    /\ attempts.unary = 1 /\ attempts.open = 1
    /\ errs.unary = "nil" /\ errs.open = "nil"
    /\ Len(received) = 2

\* What one step does to the streaming call k.
EmitsItem(k) == Len(calls'[k].sent) > Len(calls[k].sent)

SendFails(k) == Len(calls'[k].tried) > Len(calls[k].tried) /\ ~EmitsItem(k)

EndsSleep(k) == calls[k].pc = "sleep" /\ calls'[k].pc # "sleep"

ReturnsNil(k) == calls[k].ret = "pending" /\ calls'[k].ret = "nil"

\* C16: in every streaming call each successful send is followed at once by one
\* sleep of one second, which is over before the next send or the return, so
\* no two items are emitted without a sleep between them; a call that returns
\* nil has slept five times, the fifth sleep being over before it returns; a
\* failed send is followed by no sleep.
C16_OneSleepPerSend ==
    /\ [](\A k \in StreamIds :
            LET c == calls[k]
            IN  /\ c.sleeps = Len(c.sent)
                /\ c.timer \in 0..SleepSecs
                /\ c.pc # "sleep" => c.timer = 0
                /\ c.pc = "loop" => c.i = c.sleeps + 1
                /\ c.ret = "nil" => c.sleeps = 5 /\ c.timer = 0
                /\ c.failed # <<>> =>
                      /\ c.pc = "done"
                      /\ c.sleeps = c.failed[1].at - 1
                      /\ Len(c.tried) = c.sleeps + 1)
    /\ [][\A k \in StreamIds :
            /\ EmitsItem(k) =>
                  /\ calls[k].pc = "loop"
                  /\ Len(calls'[k].sent) = Len(calls[k].sent) + 1
                  /\ calls'[k].pc = "sleep"
                  /\ calls'[k].timer = SleepSecs
                  /\ calls'[k].sleeps = calls[k].sleeps + 1
            /\ EndsSleep(k) =>
                  /\ calls[k].timer = 0
                  /\ calls'[k].pc = "loop"
                  /\ calls'[k].sleeps = calls[k].sleeps
                  /\ calls'[k].sent = calls[k].sent
            /\ ReturnsNil(k) =>
                  /\ calls[k].pc = "loop"
                  /\ calls[k].sleeps = 5
                  /\ calls[k].timer = 0
                  /\ calls'[k].sleeps = 5
            /\ SendFails(k) =>
                  /\ calls'[k].pc = "done"
                  /\ calls'[k].ret \in SendErrors
                  /\ calls'[k].sleeps = calls[k].sleeps
                  /\ calls'[k].timer = 0
            /\ calls[k].pc = "done" => calls'[k] = calls[k]]_vars

\* C16 witness: one call returned nil after its fifth sleep while another
\* ended on its third send, after two sleeps.
C16_Witness ==
    \E k \in StreamIds : \E j \in StreamIds :
        /\ calls[k].ret = "nil" /\ calls[k].sleeps = 5 /\ calls[k].timer = 0
        /\ calls[j].failed # <<>> /\ calls[j].failed[1].at = 3
        /\ calls[j].sleeps = 2 /\ calls[j].pc = "done"

\* The deferred calls main has registered when it stands at a given step,
\* last registered first.
DeferredAt(step) ==
    IF step = "connect" THEN <<>> ELSE <<"cancel", "close">>

\* C17: when main returns the deferred calls run, cancel first and then
\* conn.Close, each once, and the connection ends closed; when the client ends
\* in log.Fatalf, at connect, the unary call, the opening of the stream or a
\* receive, no deferred call runs: the connection is never closed, the context
\* never cancelled, and what was deferred is still pending.  Before the
\* process ends no deferred call has run.
C17_DeferredCleanup ==
    /\ cliExit = <<>> => cleanup = <<>> /\ conn # "closed" /\ ctxState # "canceled"
    /\ cliExit = <<OkStatus>> =>
          /\ cleanup = <<"cancel", "close">>
          /\ defers = <<>>
          /\ conn = "closed"
          /\ ctxState \in {"canceled", "expired"}
          /\ cliFatal = <<>>
    /\ cliExit = <<FatalStatus>> =>
          /\ cliFatal # <<>>
          /\ cliFatal[1].step \in {"connect", "unary", "open", "recv"}
          /\ cleanup = <<>>
          /\ defers = DeferredAt(cliFatal[1].step)
          /\ conn = (IF cliFatal[1].step = "connect" THEN "none" ELSE "open")
          /\ ctxState # "canceled"

\* C17 witness: main returned and ran cancel, then conn.Close.
C17_Witness ==
    /\ cliExit = <<OkStatus>>
    /\ cleanup = <<"cancel", "close">>
    /\ conn = "closed"
    /\ defers = <<>>

====
